---- MODULE Spec2Model ----
(***************************************************************************)
(* Inventory ledger of the MES backend (src/app/routes.py).                *)
(*                                                                         *)
(*   control_material_almacen  receipt rows           -> almacen           *)
(*   control_material_salida   issuance rows          -> salidas           *)
(*   inventario_general        aggregate per part     -> inventario        *)
(*                                                                         *)
(* Strings are sequences of tokens (a token is an atomic piece of text,    *)
(* " " is one blank); quantities are integers (the code uses float, the    *)
(* arithmetic checked here is exact on the values used).                   *)
(***************************************************************************)
EXTENDS Integers, Sequences, FiniteSets, TLC

(* ---------------------------- bounds ----------------------------------- *)
MaxRecibos == 2
MaxSalidas == 2
MaxCantidad == 2
MaxRecibosAgregado == 1
MaxSalidasAgregado == 2
MaxRecibosConcurrente == 1
MaxSerie == 4
MaxColaSerie == 1
MaxFlujos == 3
MaxRecibosConsulta == 1
MaxSalidasConsulta == 1
MaxRecibosTodo == 1
MaxSalidasTodo == 2
PasoReloj == 15
MaxReloj == 45
DesfaseZona == 3600
Ventana == 30
SerieLarga == 9999
MaxRecibosSerie == 3
MaxRecibosStock == 2
MaxSalidasStock == 2
AnchoSecuencial == 4

(* ---------------------------- input sets -------------------------------- *)
Vacio == <<>>
B1 == <<"B1">>
B2 == <<"B2">>
P1 == <<"P1">>
P1Relleno == <<" ", "P1">>
\* JSON null / SQL NULL / Python None in a text field
Nulo == <<"None">>

CodigosEntrada == {B1, B2}
B1Relleno == <<" ", "B1">>
CodigosStock == {B1, B1Relleno}
CodigosSalida == {Vacio, B1, B2}
M1 == <<"M1">>
Originales == {Vacio, M1}
Partes == {Vacio, P1, P1Relleno, Nulo}
PartesClave == {P1, P1Relleno}
\* a part number that contains another one
P1X == <<"P1", "X">>
PartesAgregado == PartesClave \cup {P1X}
Cantidades == (0 - 1) .. MaxCantidad
M2 == <<"M2">>
Materiales == {Vacio, M1, M2}
Dias == <<"D1", "D2">>
Clientes == {"c1", "c2"}
Nadie == "nadie"

(* ---------------------------- text helpers ------------------------------ *)
RECURSIVE LStrip(_)
LStrip(s) == IF s # <<>> /\ Head(s) = " " THEN LStrip(Tail(s)) ELSE s

RECURSIVE RStrip(_)
RStrip(s) == IF s # <<>> /\ s[Len(s)] = " " THEN RStrip(SubSeq(s, 1, Len(s) - 1)) ELSE s

Strip(s) == RStrip(LStrip(s))

Truthy(s) == s # <<>> /\ s # Nulo

\* python `s or ''`
OVacio(s) == IF Truthy(s) THEN s ELSE Vacio

(* ---------------------------- state ------------------------------------- *)
VARIABLES almacen, salidas, inventario, hilos, ultima, colCantidadRecibida, peticion, candado, hoy, reloj,
          tablaControlMaterial, fallidas

vars == <<almacen, salidas, inventario, hilos, ultima, colCantidadRecibida, peticion, candado, hoy, reloj,
          tablaControlMaterial, fallidas>>

\* the state of the step-wise requests and the clock, untouched by a request that runs alone
resto == <<colCantidadRecibida, peticion, candado, hoy, reloj, tablaControlMaterial, fallidas>>

\* the same without the record of the failed background updates (fallidas: the parts
\* for which a thread has logged a failure and no recompute has run since)
entorno == <<colCantidadRecibida, peticion, candado, hoy, reloj, tablaControlMaterial>>

\* the clock in seconds: the UTC time and the offset of the server's local time
AhoraUTC == reloj.utc

AhoraLocal == reloj.utc + reloj.zona

RelojCero == [utc |-> 0, zona |-> 0]

\* the descriptive columns of a row of inventario_general
Descriptivos(codigo, propiedad, espec, creacion) ==
    [codigo_material |-> codigo, propiedad_material |-> propiedad, especificacion |-> espec,
     fecha_creacion |-> creacion]

\* the columns an INSERT does not name: NULL texts, the creation stamp of the new row
DescriptivosPorDefecto(creacion) == Descriptivos(Nulo, Nulo, Nulo, creacion)

\* codigo_material, propiedad_material and especificacion as the receipt form sends them
DescriptivosDelRecibo(creacion) == Descriptivos(<<"CM">>, <<"PM">>, <<"ES">>, creacion)

SinFila == [existe |-> FALSE, cantidad_entradas |-> 0, cantidad_salidas |-> 0, cantidad_total |-> 0,
            fecha_actualizacion |-> 0, descriptivos |-> DescriptivosPorDefecto(0)]

\* a row of inventario_general as the incremental update and recompute_all() write it,
\* stamped with the server's clock and described from the receipt
FilaInventario(e, s, t) ==
    [existe |-> TRUE, cantidad_entradas |-> e, cantidad_salidas |-> s, cantidad_total |-> t,
     fecha_actualizacion |-> AhoraLocal, descriptivos |-> DescriptivosDelRecibo(AhoraLocal)]

\* an UPDATE of the quantities keeps the descriptive columns of the row it finds
ConDescriptivosDe(anterior, fila, nuevos) ==
    [fila EXCEPT !.descriptivos = IF anterior.existe THEN anterior.descriptivos ELSE nuevos]

\* the last response sent (or, for the daemon thread, the last line logged): its kind and
\* the amounts it carries; "informa" names the amounts that are present
Evento(op, tipo) ==
    [op |-> op, tipo |-> tipo, parte |-> Vacio, informa |-> {}, disponible |-> 0,
     solicitado |-> 0, original |-> 0, previas |-> 0, nueva |-> 0, repetida |-> FALSE,
     siguiente_secuencial |-> 0, fecha_actual |-> "", proximo_codigo_completo |-> Vacio,
     cantidad_total |-> 0, actualizado_recientemente |-> FALSE, suficiente |-> FALSE]

SinEvento == Evento("ninguna", "ninguno")

(* ---------------------------- queries ----------------------------------- *)
Indices(t) == 1 .. Len(t)

\* SUM over the selected values, one per row; 0 stands for a row the WHERE leaves out
RECURSIVE SumaDe(_, _)
SumaDe(valores, i) == IF i = 0 THEN 0 ELSE valores[i] + SumaDe(valores, i - 1)

Suma(valores) == SumaDe(valores, Len(valores))

\* SELECT ... FROM control_material_almacen WHERE codigo_material_recibido = ? ; fetchone()
FilasDeCodigo(codigo) == {i \in Indices(almacen) : almacen[i].codigo_material_recibido = codigo}

PrimeraFila(codigo) == CHOOSE i \in FilasDeCodigo(codigo) : \A j \in FilasDeCodigo(codigo) : i <= j

\* SELECT COALESCE(SUM(cantidad_salida), 0) FROM control_material_salida WHERE codigo_material_recibido = ?
TotalSalidasDe(sal, codigo) ==
    Suma([i \in Indices(sal) |->
            IF sal[i].codigo_material_recibido = codigo THEN sal[i].cantidad_salida ELSE 0])

TotalSalidasPrevias(codigo) == TotalSalidasDe(salidas, codigo)

\* cur.execute(SELECT SUM(col)): NULL values are skipped, a nullable column is a set of at most one value
SumaNula(valores) ==
    Suma([i \in Indices(valores) |-> IF valores[i] = {} THEN 0 ELSE CHOOSE v \in valores[i] : TRUE])

(* ---------------------------- db.py (aggregate updates) ----------------- *)
\* apply_delta(part, +q, 0): adds to the row, or creates it from a zero baseline
ActualizarInventarioGeneralEntrada(inv, parte, cantidad) ==
    [inv EXCEPT ![parte] =
        ConDescriptivosDe(inv[parte],
                          FilaInventario(inv[parte].cantidad_entradas + cantidad,
                                         inv[parte].cantidad_salidas,
                                         inv[parte].cantidad_total + cantidad),
                          DescriptivosDelRecibo(AhoraLocal))]

\* apply_delta(part, 0, +q)
ActualizarInventarioGeneralSalida(inv, parte, cantidad) ==
    [inv EXCEPT ![parte] =
        ConDescriptivosDe(inv[parte],
                          FilaInventario(inv[parte].cantidad_entradas,
                                         inv[parte].cantidad_salidas + cantidad,
                                         inv[parte].cantidad_total - cantidad),
                          DescriptivosPorDefecto(AhoraLocal))]

\* ledger sums per part
RecibidoDe(alm, parte) ==
    Suma([i \in Indices(alm) |-> IF alm[i].numero_parte = parte THEN alm[i].cantidad_actual ELSE 0])

EmitidoDe(alm, sal, parte) ==
    Suma([j \in Indices(sal) |->
            IF \E i \in Indices(alm) : /\ alm[i].codigo_material_recibido = sal[j].codigo_material_recibido
                                      /\ alm[i].numero_parte = parte
            THEN sal[j].cantidad_salida ELSE 0])

\* recompute_all(): every distinct part of the ledger is rebuilt from the event rows
RecalcularInventarioGeneral(alm, sal) ==
    [p \in PartesAgregado |->
        IF \E i \in Indices(alm) : alm[i].numero_parte = p
        THEN FilaInventario(RecibidoDe(alm, p), EmitidoDe(alm, sal, p),
                            RecibidoDe(alm, p) - EmitidoDe(alm, sal, p))
        ELSE SinFila]

(* ---------------------------- guardar_control_almacen ------------------- *)
FilaAlmacen(codigo, parte, cantidad) ==
    [codigo_material_recibido |-> codigo, numero_parte |-> parte,
     cantidad_actual |-> cantidad, cantidad_recibida |-> {}]

InventarioTrasEntrada(inv, parte, cantidad) ==
    IF Truthy(Strip(parte)) /\ cantidad > 0
    THEN ActualizarInventarioGeneralEntrada(inv, Strip(parte), cantidad)
    ELSE inv

\* the validation, the INSERT with its commit, the aggregate update and the response
EfectoEntrada(original, codigo, parte, cantidad) ==
    IF ~Truthy(original)
    THEN /\ ultima' = Evento("guardar", "validacion")
         /\ UNCHANGED <<almacen, inventario>>
    ELSE /\ almacen' = Append(almacen, FilaAlmacen(codigo, parte, cantidad))
         /\ IF parte = Nulo
            \* the row is committed, then None.strip() raises and the except branch answers 500
            THEN /\ ultima' = Evento("guardar", "error_interno")
                 /\ UNCHANGED inventario
            ELSE /\ inventario' = InventarioTrasEntrada(inventario, parte, cantidad)
                 /\ ultima' = Evento("guardar", "ok")

GuardarControlAlmacen(original, codigo, parte, cantidad) ==
    /\ EfectoEntrada(original, codigo, parte, cantidad)
    /\ UNCHANGED <<salidas, hilos, resto>>

(* ---------------------------- procesar_salida_material ------------------ *)
FilaSalida(codigo, cantidad) == [codigo_material_recibido |-> codigo, cantidad_salida |-> cantidad]

StockDisponible(codigo) == almacen[PrimeraFila(codigo)].cantidad_actual - TotalSalidasPrevias(codigo)

\* the response of the handler; "informa" lists the amounts the message carries
RespuestaSalida(codigo, cantidad) ==
    LET base == Evento("salida", "ok")
    IN  IF ~Truthy(codigo) \/ cantidad = 0
        THEN [base EXCEPT !.tipo = "campo_requerido"]
        ELSE IF cantidad <= 0
        THEN [base EXCEPT !.tipo = "cantidad_no_positiva"]
        ELSE IF FilasDeCodigo(codigo) = {}
        THEN [base EXCEPT !.tipo = "no_encontrado"]
        ELSE LET original == almacen[PrimeraFila(codigo)].cantidad_actual
                 previas == TotalSalidasPrevias(codigo)
                 stock == StockDisponible(codigo)
             IN  IF stock <= 0
                 THEN [base EXCEPT !.tipo = "sin_stock", !.informa = {"original", "previas"},
                                   !.original = original, !.previas = previas]
                 ELSE IF cantidad > stock
                 THEN [base EXCEPT !.tipo = "insuficiente", !.informa = {"disponible", "solicitado"},
                                   !.disponible = stock, !.solicitado = cantidad]
                 ELSE [base EXCEPT !.tipo = "ok", !.informa = {"solicitado", "nueva"},
                                   !.parte = OVacio(almacen[PrimeraFila(codigo)].numero_parte),
                                   !.solicitado = cantidad, !.nueva = stock - cantidad]

Hilo(indice, parte, cantidad) == [salida |-> indice, numero_parte |-> parte, cantidad_salida |-> cantidad]

\* what the handler does once its response r is decided: an accepted request inserts
\* the row, commits and starts the daemon thread when the part number is not empty
EfectoSalida(codigo, cantidad, r) ==
    /\ ultima' = r
    /\ IF r.tipo = "ok"
       THEN /\ salidas' = Append(salidas, FilaSalida(codigo, cantidad))
            /\ hilos' = IF Truthy(r.parte)
                        THEN hilos \cup {Hilo(Len(salidas) + 1, r.parte, cantidad)}
                        ELSE hilos
       ELSE UNCHANGED <<salidas, hilos>>
    /\ UNCHANGED <<almacen, inventario, resto>>

\* the handler without the check of the quantity against the available stock
ProcesarSalidaSinTope(codigo, cantidad) ==
    LET r == RespuestaSalida(codigo, cantidad)
    IN  EfectoSalida(codigo, cantidad,
                     IF r.tipo = "insuficiente"
                     THEN [r EXCEPT !.tipo = "ok", !.nueva = r.disponible - cantidad,
                                    !.parte = almacen[PrimeraFila(codigo)].numero_parte]
                     ELSE r)

\* the handler without the check of the fetched row: the None row raises, answered 500
ProcesarSalidaSinBusqueda(codigo, cantidad) ==
    LET r == RespuestaSalida(codigo, cantidad)
    IN  EfectoSalida(codigo, cantidad,
                     IF r.tipo = "no_encontrado" THEN [r EXCEPT !.tipo = "error_interno"] ELSE r)

\* the handler answering the stock before the issuance instead of after it
ProcesarSalidaSinRestar(codigo, cantidad) ==
    LET r == RespuestaSalida(codigo, cantidad)
    IN  EfectoSalida(codigo, cantidad,
                     IF r.tipo = "ok" THEN [r EXCEPT !.nueva = r.nueva + cantidad] ELSE r)

ProcesarSalidaMaterial(codigo, cantidad) ==
    EfectoSalida(codigo, cantidad, RespuestaSalida(codigo, cantidad))

(* ---------------------------- guardar_salida_lote ----------------------- *)
\* the response of the lot-issuance endpoint
RespuestaSalidaLote(codigo, cantidad) ==
    LET base == Evento("lote", "ok")
    IN  IF ~Truthy(codigo) \/ cantidad = 0
        THEN [base EXCEPT !.tipo = "faltan_datos"]
        ELSE IF FilasDeCodigo(codigo) = {}
        THEN [base EXCEPT !.tipo = "no_encontrado"]
        ELSE LET actual == almacen[PrimeraFila(codigo)].cantidad_actual
             IN  IF cantidad > actual
                 THEN [base EXCEPT !.tipo = "insuficiente", !.informa = {"disponible", "solicitado"},
                                   !.disponible = actual, !.solicitado = cantidad]
                 \* UPDATE control_material ...: "no such table" is answered 500, nothing is committed
                 ELSE IF ~tablaControlMaterial
                 THEN [base EXCEPT !.tipo = "error_interno"]
                 ELSE [base EXCEPT !.tipo = "ok", !.solicitado = cantidad]

\* the endpoint with its UPDATE aimed at the receipt table
GuardarSalidaLoteEnAlmacen(codigo, cantidad) ==
    LET r == RespuestaSalidaLote(codigo, cantidad)
    IN  /\ ultima' = IF r.tipo = "error_interno" THEN [r EXCEPT !.tipo = "ok", !.solicitado = cantidad] ELSE r
        /\ IF r.tipo \in {"ok", "error_interno"}
           THEN /\ salidas' = Append(salidas, FilaSalida(codigo, cantidad))
                /\ almacen' = [i \in Indices(almacen) |->
                                  IF almacen[i].codigo_material_recibido = codigo
                                  THEN [almacen[i] EXCEPT !.cantidad_actual = @ - cantidad]
                                  ELSE almacen[i]]
           ELSE UNCHANGED <<almacen, salidas>>
        /\ UNCHANGED <<inventario, hilos, resto>>

\* the UPDATE goes to the table control_material, the INSERT to control_material_salida;
\* no aggregate update is made or started
GuardarSalidaLote(codigo, cantidad) ==
    LET r == RespuestaSalidaLote(codigo, cantidad)
    IN  /\ ultima' = r
        /\ IF r.tipo = "ok"
           THEN salidas' = Append(salidas, FilaSalida(codigo, cantidad))
           ELSE UNCHANGED salidas
        /\ UNCHANGED <<almacen, inventario, hilos, resto>>

(* ---------------------------- stock queries of the issuance form -------- *)
\* buscar_material_por_codigo: the code of the query string is stripped, then the
\* receipt row, the sum of the issuances of the code and their difference
RespuestaBuscarCodigo(codigo) ==
    LET k == Strip(codigo)
    IN  IF ~Truthy(k)
        THEN Evento("buscar_codigo", "requerido")
        ELSE IF FilasDeCodigo(k) = {}
        THEN Evento("buscar_codigo", "no_encontrado")
        ELSE IF StockDisponible(k) <= 0
        THEN [Evento("buscar_codigo", "sin_stock") EXCEPT
                 !.informa = {"original", "previas", "disponible"},
                 !.original = almacen[PrimeraFila(k)].cantidad_actual,
                 !.previas = TotalSalidasPrevias(k), !.disponible = StockDisponible(k)]
        ELSE [Evento("buscar_codigo", "ok") EXCEPT
                 !.informa = {"original", "previas", "disponible"},
                 !.original = almacen[PrimeraFila(k)].cantidad_actual,
                 !.previas = TotalSalidasPrevias(k), !.disponible = StockDisponible(k)]

BuscarMaterialPorCodigo(codigo) ==
    /\ ultima' = RespuestaBuscarCodigo(codigo)
    /\ UNCHANGED <<almacen, salidas, inventario, hilos, resto>>

\* ORDER BY fecha_registro DESC LIMIT 1: the row registered last
UltimaFila(codigo) == CHOOSE i \in FilasDeCodigo(codigo) : \A j \in FilasDeCodigo(codigo) : j <= i

\* control_salida_validar_stock: cantidad_actual of the receipt row against the
\* required quantity (the rows of the model carry no codigo_material to match)
RespuestaValidarStock(codigo, cantidad) ==
    IF ~Truthy(codigo)
    THEN Evento("validar", "requerido")
    ELSE IF FilasDeCodigo(codigo) = {}
    THEN Evento("validar", "no_encontrado")
    ELSE [Evento("validar", "ok") EXCEPT
             !.informa = {"disponible", "solicitado"},
             !.disponible = almacen[UltimaFila(codigo)].cantidad_actual,
             !.solicitado = cantidad,
             !.suficiente = (almacen[UltimaFila(codigo)].cantidad_actual >= cantidad)]

ControlSalidaValidarStock(codigo, cantidad) ==
    /\ ultima' = RespuestaValidarStock(codigo, cantidad)
    /\ UNCHANGED <<almacen, salidas, inventario, hilos, resto>>

\* actualizar_inventario_background: the daemon thread of one committed issuance
\* resultado truthy: the update was applied
BackgroundExito(h) ==
    /\ h \in hilos
    /\ hilos' = hilos \ {h}
    /\ inventario' = ActualizarInventarioGeneralSalida(inventario, h.numero_parte, h.cantidad_salida)
    /\ ultima' = [Evento("background", "ok") EXCEPT !.parte = h.numero_parte,
                     !.informa = {"solicitado"}, !.solicitado = h.cantidad_salida]
    /\ UNCHANGED <<almacen, salidas, resto>>

\* a worker that puts the failed update back in the queue
BackgroundFalloReintenta(h) ==
    /\ h \in hilos
    /\ hilos' = hilos
    /\ ultima' = [Evento("background", "fallo") EXCEPT !.parte = h.numero_parte]
    /\ UNCHANGED <<almacen, salidas, inventario, resto>>

\* resultado falsy or an exception: only a line is printed
BackgroundFallo(h) ==
    /\ h \in hilos
    /\ hilos' = hilos \ {h}
    /\ ultima' = [Evento("background", "fallo") EXCEPT !.parte = h.numero_parte]
    /\ fallidas' = fallidas \cup {h.numero_parte}
    /\ UNCHANGED <<almacen, salidas, inventario, entorno>>

ActualizarInventarioBackground(h) == BackgroundExito(h) \/ BackgroundFallo(h)

(* ---------------------------- forced recompute -------------------------- *)
\* SELECT SUM(cantidad_recibida) FROM control_material_almacen WHERE numero_parte = ?
TotalEntradasForzado(alm, parte) ==
    SumaNula([i \in Indices(alm) |->
                IF alm[i].numero_parte = parte THEN alm[i].cantidad_recibida ELSE {}])

\* SELECT SUM(cantidad_salida) FROM control_material_salida cms JOIN control_material_almacen cma ...
TotalSalidasForzado(alm, sal, parte) ==
    LET Coinciden(s) == Cardinality({i \in Indices(alm) :
                            /\ alm[i].codigo_material_recibido = s.codigo_material_recibido
                            /\ alm[i].numero_parte = parte})
    IN  Suma([i \in Indices(sal) |-> sal[i].cantidad_salida * Coinciden(sal[i])])

\* an UPDATE that adds the recomputed sums to the row instead of replacing it
InventarioForzadoAcumulado(inv, alm, sal, parte) ==
    [inv EXCEPT ![parte] =
        [FilaInventario(inv[parte].cantidad_entradas + TotalEntradasForzado(alm, parte),
                        inv[parte].cantidad_salidas + TotalSalidasForzado(alm, sal, parte),
                        inv[parte].cantidad_total + TotalEntradasForzado(alm, parte)
                            - TotalSalidasForzado(alm, sal, parte))
            EXCEPT !.fecha_actualizacion = AhoraUTC, !.descriptivos = DescriptivosPorDefecto(AhoraUTC)]]

\* INSERT OR REPLACE INTO inventario_general (numero_parte, cantidad_entradas, cantidad_salidas,
\* cantidad_total, fecha_actualizacion) VALUES (?, ?, ?, ?, datetime('now')): sqlite's 'now' is UTC;
\* the row of the part is deleted and a new one inserted with the five named columns
InventarioForzado(inv, alm, sal, parte) ==
    [inv EXCEPT ![parte] =
        [FilaInventario(TotalEntradasForzado(alm, parte), TotalSalidasForzado(alm, sal, parte),
                        TotalEntradasForzado(alm, parte) - TotalSalidasForzado(alm, sal, parte))
            EXCEPT !.fecha_actualizacion = AhoraUTC, !.descriptivos = DescriptivosPorDefecto(AhoraUTC)]]

Repetida(op, parte) == ultima.op = op /\ ultima.parte = parte

ForzarActualizacionInventario(parte) ==
    /\ IF colCantidadRecibida
       THEN /\ inventario' = InventarioForzado(inventario, almacen, salidas, parte)
            /\ ultima' = [Evento("forzar", "ok") EXCEPT !.parte = parte,
                             !.repetida = Repetida("forzar", parte)]
            /\ fallidas' = fallidas \ {parte}
       ELSE /\ ultima' = [Evento("forzar", "error_interno") EXCEPT !.parte = parte,
                             !.repetida = Repetida("forzar", parte)]
            /\ UNCHANGED <<inventario, fallidas>>
    /\ UNCHANGED <<almacen, salidas, hilos, entorno>>

RecalcularInventarioGeneralEndpoint ==
    /\ inventario' = RecalcularInventarioGeneral(almacen, salidas)
    /\ ultima' = [Evento("recalcular", "ok") EXCEPT !.repetida = Repetida("recalcular", Vacio)]
    /\ fallidas' = {}
    /\ UNCHANGED <<almacen, salidas, hilos, entorno>>

(* ---------------------------- balance queries --------------------------- *)
PartesConsulta == {Vacio, P1, P1Relleno, P1X}

\* datetime.now() - fecha_actualizacion < timedelta(seconds=30)
ActualizadoRecientemente(fecha) == AhoraLocal - fecha < Ventana

RespuestaVerificar(parte) ==
    IF ~Truthy(parte)
    THEN Evento("verificar", "requerido")
    ELSE IF parte \in PartesAgregado /\ inventario[parte].existe
    THEN [Evento("verificar", "ok") EXCEPT
             !.parte = parte,
             !.cantidad_total = inventario[parte].cantidad_total,
             !.actualizado_recientemente = ActualizadoRecientemente(inventario[parte].fecha_actualizacion)]
    ELSE Evento("verificar", "no_encontrado")

VerificarEstadoInventario(parte) ==
    /\ ultima' = RespuestaVerificar(parte)
    /\ UNCHANGED <<almacen, salidas, inventario, hilos, resto>>

\* numero_parte LIKE '%...%': the text occurs somewhere in the column
Contiene(s, sub) == \E i \in 1 .. Len(s) - Len(sub) + 1 : SubSeq(s, i, i + Len(sub) - 1) = sub

\* WHERE numero_parte LIKE ? OR numero_parte = ?
CandidatasAgregado(p) == {q \in PartesAgregado : inventario[q].existe /\ (Contiene(q, p) \/ q = p)}

\* ORDER BY fecha_actualizacion DESC ... fetchone(): a row with the latest stamp
MasRecientes(p) ==
    {q \in CandidatasAgregado(p) :
        \A r \in CandidatasAgregado(p) : inventario[r].fecha_actualizacion <= inventario[q].fecha_actualizacion}

\* the fallback on the receipt rows (NULL matches nothing)
FilasIndividuales(p) ==
    {i \in Indices(almacen) :
        /\ almacen[i].numero_parte # Nulo
        /\ Contiene(almacen[i].numero_parte, p) \/ almacen[i].numero_parte = p}

BuscarMaterialPorNumeroParte(parte) ==
    /\ LET p == Strip(parte)
       IN  IF ~Truthy(p)
           THEN ultima' = Evento("buscar", "requerido")
           ELSE IF CandidatasAgregado(p) # {}
           THEN \E q \in MasRecientes(p) :
                    ultima' = [Evento("buscar", "ok") EXCEPT
                                  !.parte = q, !.cantidad_total = inventario[q].cantidad_total]
           ELSE IF FilasIndividuales(p) # {}
           THEN ultima' = Evento("buscar", "ok_individual")
           ELSE ultima' = Evento("buscar", "no_encontrado")
    /\ UNCHANGED <<almacen, salidas, inventario, hilos, resto>>

\* time passes
Tic ==
    /\ reloj.utc < MaxReloj
    /\ reloj' = [reloj EXCEPT !.utc = @ + PasoReloj]
    /\ UNCHANGED <<almacen, salidas, inventario, hilos, ultima, colCantidadRecibida, tablaControlMaterial, fallidas, peticion, candado, hoy>>

(* ---------------------------- procesar_salida_material, step by step ----- *)
(* Two requests run in their own threads on their own sqlite3 connections. *)
(* Each runs in a deferred transaction: the first SELECT takes the SHARED   *)
(* lock and keeps it to the end of the transaction, the INSERT needs the    *)
(* RESERVED lock (one holder), COMMIT needs every other SHARED lock gone.   *)
PeticionLibre ==
    [pc |-> "libre", codigo |-> Vacio, cantidad |-> 0, original |-> 0, parte |-> Vacio,
     previas |-> 0, tipo |-> "ninguno", disponible |-> 0, nueva |-> 0]

CandadoLibre == [compartido |-> {}, reservado |-> Nadie]

\* conn.rollback() / conn.close(): the connection gives up its locks
Soltar(c) == [compartido |-> candado.compartido \ {c},
              reservado |-> IF candado.reservado = c THEN Nadie ELSE candado.reservado]

Responder(c, tipo) == [peticion EXCEPT ![c].pc = "fin", ![c].tipo = tipo]

\* request.get_json(), the required fields and the sign of the quantity
IniciarSalida(c, codigo, cantidad) ==
    /\ peticion[c].pc = "libre"
    /\ LET p == [peticion EXCEPT ![c].codigo = codigo, ![c].cantidad = cantidad]
       IN  peticion' = IF ~Truthy(codigo) \/ cantidad = 0
                       THEN [p EXCEPT ![c].pc = "fin", ![c].tipo = "campo_requerido"]
                       ELSE IF cantidad <= 0
                       THEN [p EXCEPT ![c].pc = "fin", ![c].tipo = "cantidad_no_positiva"]
                       ELSE [p EXCEPT ![c].pc = "leer"]
    /\ UNCHANGED <<almacen, salidas, inventario, hilos, ultima, colCantidadRecibida, tablaControlMaterial, fallidas, candado, hoy, reloj>>

\* BEGIN TRANSACTION; SELECT id, cantidad_actual, numero_parte ... fetchone()
LeerMaterial(c) ==
    /\ peticion[c].pc = "leer"
    /\ IF FilasDeCodigo(peticion[c].codigo) = {}
       THEN /\ peticion' = Responder(c, "no_encontrado")
            /\ candado' = Soltar(c)
       ELSE /\ peticion' = [peticion EXCEPT ![c].pc = "sumar",
                               ![c].original = almacen[PrimeraFila(peticion[c].codigo)].cantidad_actual,
                               ![c].parte = OVacio(almacen[PrimeraFila(peticion[c].codigo)].numero_parte)]
            /\ candado' = [candado EXCEPT !.compartido = @ \cup {c}]
    /\ UNCHANGED <<almacen, salidas, inventario, hilos, ultima, colCantidadRecibida, tablaControlMaterial, fallidas, hoy, reloj>>

\* SELECT COALESCE(SUM(cantidad_salida), 0) ...: the committed rows only
SumarSalidas(c) ==
    /\ peticion[c].pc = "sumar"
    /\ peticion' = [peticion EXCEPT ![c].pc = "verificar",
                       ![c].previas = TotalSalidasDe(salidas, peticion[c].codigo)]
    /\ UNCHANGED <<almacen, salidas, inventario, hilos, ultima, colCantidadRecibida, tablaControlMaterial, fallidas, candado, hoy, reloj>>

\* stock_disponible = cantidad_original - total_salidas_previas and the two checks
VerificarStock(c) ==
    /\ peticion[c].pc = "verificar"
    /\ LET stock == peticion[c].original - peticion[c].previas
       IN  IF stock <= 0
           THEN /\ peticion' = Responder(c, "sin_stock")
                /\ candado' = Soltar(c)
           ELSE IF peticion[c].cantidad > stock
           THEN /\ peticion' = [Responder(c, "insuficiente") EXCEPT ![c].disponible = stock]
                /\ candado' = Soltar(c)
           ELSE /\ peticion' = [peticion EXCEPT ![c].pc = "insertar", ![c].disponible = stock]
                /\ UNCHANGED candado
    /\ UNCHANGED <<almacen, salidas, inventario, hilos, ultima, colCantidadRecibida, tablaControlMaterial, fallidas, hoy, reloj>>

\* INSERT INTO control_material_salida: "database is locked" when another
\* connection holds the RESERVED lock, which the except branch answers with a 500
InsertarSalida(c) ==
    /\ peticion[c].pc = "insertar"
    /\ IF candado.reservado \notin {Nadie, c}
       THEN /\ peticion' = Responder(c, "error_interno")
            /\ candado' = Soltar(c)
       ELSE /\ peticion' = [peticion EXCEPT ![c].pc = "confirmar",
                               ![c].nueva = peticion[c].disponible - peticion[c].cantidad]
            /\ candado' = [candado EXCEPT !.reservado = c]
    /\ UNCHANGED <<almacen, salidas, inventario, hilos, ultima, colCantidadRecibida, tablaControlMaterial, fallidas, hoy, reloj>>

\* conn.commit(), then the daemon thread and the response
ConfirmarSalida(c) ==
    /\ peticion[c].pc = "confirmar"
    /\ candado.compartido \ {c} = {}
    /\ salidas' = Append(salidas, FilaSalida(peticion[c].codigo, peticion[c].cantidad))
    /\ hilos' = IF Truthy(peticion[c].parte)
                THEN hilos \cup {Hilo(Len(salidas) + 1, peticion[c].parte, peticion[c].cantidad)}
                ELSE hilos
    /\ peticion' = Responder(c, "ok")
    /\ candado' = Soltar(c)
    /\ UNCHANGED <<almacen, inventario, ultima, colCantidadRecibida, tablaControlMaterial, fallidas, hoy, reloj>>

\* a handler that starts the daemon thread before the commit is known to succeed
ConfirmarAgotadoConHilo(c) ==
    /\ peticion[c].pc = "confirmar"
    /\ candado.compartido \ {c} # {}
    /\ hilos' = hilos \cup {Hilo(Len(salidas) + 1, peticion[c].parte, peticion[c].cantidad)}
    /\ peticion' = Responder(c, "error_interno")
    /\ candado' = Soltar(c)
    /\ UNCHANGED <<almacen, salidas, inventario, ultima, colCantidadRecibida, tablaControlMaterial, fallidas, hoy, reloj>>

\* conn.commit() gives up after the connection's busy timeout while a reader stays
ConfirmarAgotado(c) ==
    /\ peticion[c].pc = "confirmar"
    /\ candado.compartido \ {c} # {}
    /\ peticion' = Responder(c, "error_interno")
    /\ candado' = Soltar(c)
    /\ UNCHANGED <<almacen, salidas, inventario, hilos, ultima, colCantidadRecibida, tablaControlMaterial, fallidas, hoy, reloj>>

(* ---------------------------- obtener_siguiente_secuencial -------------- *)
SaltoDeLinea == "LF"

Digito == <<"1", "2", "3", "4", "5", "6", "7", "8", "9">>

CifraDe(n) == IF n = 0 THEN "0" ELSE Digito[n]

ValorDeCifra(d) == IF d = "0" THEN 0 ELSE CHOOSE n \in 1 .. 9 : Digito[n] = d

EsCifra(d) == d = "0" \/ \E n \in 1 .. 9 : Digito[n] = d

RECURSIVE Cifras(_)
Cifras(n) == IF n < 10 THEN <<CifraDe(n)>> ELSE Append(Cifras(n \div 10), CifraDe(n % 10))

RECURSIVE Rellenar(_, _)
Rellenar(s, ancho) == IF Len(s) < ancho THEN Rellenar(<<"0">> \o s, ancho) ELSE s

\* f"{siguiente_secuencial:04d}": at least four digits, more when the number needs them
Formato04d(n) == Rellenar(Cifras(n), AnchoSecuencial)

RECURSIVE ValorDe(_)
ValorDe(s) == IF s = <<>> THEN 0 ELSE 10 * ValorDe(SubSeq(s, 1, Len(s) - 1)) + ValorDeCifra(s[Len(s)])

\* f"{codigo_material},{fecha_actual}{siguiente_secuencial:04d}"
CodigoCompleto(material, fecha, n) == material \o <<",", fecha>> \o Formato04d(n)

\* re.match(rf'^{re.escape(codigo_material)},{fecha_actual}(\d{{4}})$', codigo_recibido)
\* ($ also matches just before a line feed that ends the string)
Coincide(material, fecha, codigo) ==
    /\ \/ Len(codigo) = Len(material) + 2 + AnchoSecuencial
       \/ /\ Len(codigo) = Len(material) + 3 + AnchoSecuencial
          /\ codigo[Len(codigo)] = SaltoDeLinea
    /\ SubSeq(codigo, 1, Len(material)) = material
    /\ codigo[Len(material) + 1] = ","
    /\ codigo[Len(material) + 2] = fecha
    /\ \A k \in Len(material) + 3 .. Len(material) + 2 + AnchoSecuencial : EsCifra(codigo[k])

\* int(match.group(1)), 0 for a row that does not match
SecuencialDeFila(material, fecha, codigo) ==
    IF Coincide(material, fecha, codigo)
    THEN ValorDe(SubSeq(codigo, Len(material) + 3, Len(material) + 2 + AnchoSecuencial))
    ELSE 0

\* the loop over the rows that keeps the highest sequence found (rows desde .. hasta)
RECURSIVE SecuencialMasAltoEntre(_, _, _, _, _)
SecuencialMasAltoEntre(alm, material, fecha, desde, hasta) ==
    IF desde > hasta THEN 0
    ELSE IF desde = hasta
    THEN SecuencialDeFila(material, fecha, alm[desde].codigo_material_recibido)
    ELSE LET medio == (desde + hasta) \div 2
             a == SecuencialMasAltoEntre(alm, material, fecha, desde, medio)
             b == SecuencialMasAltoEntre(alm, material, fecha, medio + 1, hasta)
         IN  IF b > a THEN b ELSE a

SecuencialMasAlto(alm, material, fecha) == SecuencialMasAltoEntre(alm, material, fecha, 1, Len(alm))

SiguienteSecuencial(alm, material, fecha) == SecuencialMasAlto(alm, material, fecha) + 1

\* the JSON the handler returns
RespuestaSecuencial(material) ==
    IF ~Truthy(material)
    THEN [Evento("secuencial", "requerido") EXCEPT !.siguiente_secuencial = 1]
    ELSE LET siguiente == SiguienteSecuencial(almacen, material, hoy)
         IN  [Evento("secuencial", "ok") EXCEPT
                 !.parte = material,
                 !.siguiente_secuencial = siguiente,
                 !.fecha_actual = hoy,
                 !.proximo_codigo_completo = CodigoCompleto(material, hoy, siguiente)]

\* a handler that reserves the code it hands out by storing a placeholder row
ObtenerSiguienteSecuencialReserva(material) ==
    /\ ultima' = RespuestaSecuencial(material)
    /\ almacen' = IF Truthy(material) /\ Len(almacen) < MaxRecibosSerie
                  THEN Append(almacen, FilaAlmacen(RespuestaSecuencial(material).proximo_codigo_completo,
                                                   Vacio, 0))
                  ELSE almacen
    /\ UNCHANGED <<salidas, inventario, hilos, resto>>

ObtenerSiguienteSecuencial(material) ==
    /\ ultima' = RespuestaSecuencial(material)
    /\ UNCHANGED <<almacen, salidas, inventario, hilos, resto>>

\* midnight passes
CambiaDia ==
    /\ hoy = Dias[1]
    /\ hoy' = Dias[2]
    /\ UNCHANGED <<almacen, salidas, inventario, hilos, ultima, colCantidadRecibida, tablaControlMaterial, fallidas, peticion, candado, reloj>>

(* ---------------------------- specification ----------------------------- *)
\* the database before any request; the schema of the deployment has or lacks the
\* column cantidad_recibida and the table control_material
InitTablas ==
    /\ almacen = <<>>
    /\ salidas = <<>>
    /\ inventario = [p \in PartesAgregado |-> SinFila]
    /\ hilos = {}
    /\ ultima = SinEvento
    /\ colCantidadRecibida \in BOOLEAN
    /\ peticion = [c \in Clientes |-> PeticionLibre]
    /\ candado = CandadoLibre
    /\ hoy = "D1"
    /\ fallidas = {}

Init ==
    /\ InitTablas
    /\ reloj = RelojCero
    /\ tablaControlMaterial = FALSE

Recibo(max) == \E o \in Originales, c \in CodigosEntrada, p \in Partes, q \in Cantidades :
                   /\ Len(almacen) < max
                   /\ GuardarControlAlmacen(o, c, p, q)

Salida(max) == \E c \in CodigosSalida, q \in Cantidades :
                   /\ Len(salidas) < max
                   /\ ProcesarSalidaMaterial(c, q)

Fondo == \E h \in hilos : ActualizarInventarioBackground(h)

Forzar == \E p \in PartesClave : ForzarActualizacionInventario(p)

\* every operation on the ledger and on the aggregate, one request at a time
Next ==
    \/ Recibo(MaxRecibosAgregado)
    \/ Salida(MaxSalidasAgregado)
    \/ Fondo
    \/ Forzar
    \/ RecalcularInventarioGeneralEndpoint

Spec == Init /\ [][Next]_vars

\* receipts and issuance requests only, one request at a time
NextLibro == Recibo(MaxRecibos) \/ Salida(MaxSalidas)

SpecLibro == Init /\ [][NextLibro]_vars

\* receipts, issuances and daemon threads that all succeed; no forced recompute
FondoExitoso == \E h \in hilos : BackgroundExito(h)

NextIncremental == Recibo(MaxRecibosAgregado) \/ Salida(MaxSalidasAgregado) \/ FondoExitoso

SpecIncremental == Init /\ [][NextIncremental]_vars

\* two issuance requests interleaved step by step, after the receipts
Iniciar == \E c \in Clientes, k \in CodigosSalida, q \in Cantidades : IniciarSalida(c, k, q)

ReciboPrevio == /\ \A c \in Clientes : peticion[c].pc = "libre"
                /\ Recibo(MaxRecibosConcurrente)

NextConcurrente ==
    \/ ReciboPrevio
    \/ Iniciar
    \/ \E c \in Clientes : LeerMaterial(c)
    \/ \E c \in Clientes : SumarSalidas(c)
    \/ \E c \in Clientes : VerificarStock(c)
    \/ \E c \in Clientes : InsertarSalida(c)
    \/ \E c \in Clientes : ConfirmarSalida(c)
    \/ \E c \in Clientes : ConfirmarAgotado(c)

SpecConcurrente == Init /\ [][NextConcurrente]_vars

\* the receipt flow of the warehouse form: ask for the next code, then store the
\* receipt under it; the ledger starts empty or holds a long series of one day
FilaDeSerie(n) == FilaAlmacen(CodigoCompleto(M1, Dias[1], n), P1, 1)

InitSerie ==
    /\ reloj = RelojCero
    /\ tablaControlMaterial = FALSE
    /\ \E k \in {0, SerieLarga} :
          /\ almacen = [n \in 1 .. k |-> FilaDeSerie(n)]
          /\ inventario = [p \in PartesAgregado |-> IF p = P1 /\ k > 0 THEN FilaInventario(k, 0, k) ELSE SinFila]
    /\ salidas = <<>>
    /\ hilos = {}
    /\ ultima = SinEvento
    /\ colCantidadRecibida \in BOOLEAN
    /\ peticion = [c \in Clientes |-> PeticionLibre]
    /\ candado = CandadoLibre
    /\ hoy = Dias[1]
    /\ fallidas = {}

CabeEnSerie == \/ Len(almacen) < MaxSerie
               \/ Len(almacen) >= SerieLarga /\ Len(almacen) < SerieLarga + MaxColaSerie

PideSecuencial == /\ ultima.op # "secuencial" \/ ultima.tipo # "ok"
                  /\ \E m \in Materiales : ObtenerSiguienteSecuencial(m)

GuardaConCodigo == /\ ultima.op = "secuencial"
                   /\ ultima.tipo = "ok"
                   /\ CabeEnSerie
                   /\ GuardarControlAlmacen(ultima.parte, ultima.proximo_codigo_completo, P1, 1)

NextSerie == PideSecuencial \/ GuardaConCodigo \/ CambiaDia

SpecSerie == InitSerie /\ [][NextSerie]_vars

\* receipt flows of several users of the warehouse form: each asks for the next code
\* and later stores its receipt under the code it was given
FlujoPide(c, material) ==
    /\ peticion[c].pc = "libre"
    /\ ultima' = RespuestaSecuencial(material)
    /\ peticion' = IF Truthy(material)
                   THEN [peticion EXCEPT ![c].pc = "codigo", ![c].parte = material,
                                         ![c].codigo = RespuestaSecuencial(material).proximo_codigo_completo]
                   ELSE peticion
    /\ UNCHANGED <<almacen, salidas, inventario, hilos, colCantidadRecibida, tablaControlMaterial, fallidas, candado, hoy, reloj>>

FlujoGuarda(c) ==
    /\ peticion[c].pc = "codigo"
    /\ Len(almacen) < MaxFlujos
    /\ EfectoEntrada(peticion[c].parte, peticion[c].codigo, P1, 1)
    /\ peticion' = [peticion EXCEPT ![c] = PeticionLibre]
    /\ UNCHANGED <<salidas, hilos, colCantidadRecibida, tablaControlMaterial, fallidas, candado, hoy, reloj>>

NextFlujos ==
    \/ \E c \in Clientes, m \in Materiales : FlujoPide(c, m)
    \/ \E c \in Clientes : FlujoGuarda(c)
    \/ CambiaDia

SpecFlujos == Init /\ [][NextFlujos]_vars

Secuencial == \E m \in Materiales : ObtenerSiguienteSecuencial(m)

\* receipts stored under codes of every shape (the field is free text), and the
\* requests for the next sequence number
CodigosDeSerie ==
    {CodigoCompleto(M1, Dias[1], 1), CodigoCompleto(M1, Dias[1], 3),
     CodigoCompleto(M2, Dias[1], 2), CodigoCompleto(M1, Dias[2], 2),
     M1 \o <<",", Dias[1], "0", "0", "4">>,
     M1 \o <<",", Dias[1], "0", "0", "0", "0", "4">>,
     CodigoCompleto(M1, Dias[1], 2) \o <<SaltoDeLinea>>}

ReciboDeSerie == \E k \in CodigosDeSerie :
                     /\ Len(almacen) < MaxRecibosSerie
                     /\ GuardarControlAlmacen(M1, k, P1, 1)

NextCodigos == ReciboDeSerie \/ Secuencial \/ CambiaDia

SpecCodigos == Init /\ [][NextCodigos]_vars

\* the issuance form: receipts, issuances and the two stock queries, on batch codes
\* with and without a leading blank
ReciboStock == \E c \in CodigosStock, q \in 1 .. MaxCantidad :
                   /\ Len(almacen) < MaxRecibosStock
                   /\ GuardarControlAlmacen(M1, c, P1, q)

SalidaStock == \E c \in CodigosStock, q \in Cantidades :
                   /\ Len(salidas) < MaxSalidasStock
                   /\ ProcesarSalidaMaterial(c, q)

ValidarStock == \E c \in CodigosStock \cup {Vacio}, q \in 1 .. MaxCantidad : ControlSalidaValidarStock(c, q)

BuscarCodigo == \E c \in CodigosStock \cup {Vacio} : BuscarMaterialPorCodigo(c)

NextStock == ReciboStock \/ SalidaStock \/ ValidarStock \/ BuscarCodigo

SpecStock == Init /\ [][NextStock]_vars

\* receipts, issuances, updates and balance queries while the clock runs, on a server
\* whose local time is UTC, behind it or ahead of it
Zonas == {0 - DesfaseZona, 0, DesfaseZona}

InitConsulta ==
    /\ InitTablas
    /\ reloj \in [utc : {0}, zona : Zonas]
    /\ tablaControlMaterial = FALSE

ReciboConsulta == \E c \in CodigosEntrada, p \in {P1, P1X}, q \in 1 .. MaxCantidad :
                      /\ Len(almacen) < MaxRecibosConsulta
                      /\ GuardarControlAlmacen(M1, c, p, q)

Verificar == \E p \in PartesConsulta : VerificarEstadoInventario(p)

Buscar == \E p \in PartesConsulta : BuscarMaterialPorNumeroParte(p)

NextConsulta ==
    \/ ReciboConsulta
    \/ Salida(MaxSalidasConsulta)
    \/ Fondo
    \/ Forzar
    \/ Verificar
    \/ Buscar
    \/ Tic

SpecConsulta == InitConsulta /\ [][NextConsulta]_vars

\* every operation of the ledger, one request at a time, on a deployment with or
\* without the table control_material
InitTodo ==
    /\ InitTablas
    /\ reloj = RelojCero
    /\ tablaControlMaterial \in BOOLEAN

SalidaLote(max) == \E c \in CodigosSalida, q \in Cantidades :
                       /\ Len(salidas) < max
                       /\ GuardarSalidaLote(c, q)

NextTodo ==
    \/ Recibo(MaxRecibosTodo)
    \/ Salida(MaxSalidasTodo)
    \/ SalidaLote(MaxSalidasTodo)
    \/ Fondo
    \/ Forzar
    \/ RecalcularInventarioGeneralEndpoint
    \/ Verificar
    \/ Secuencial

SpecTodo == InitTodo /\ [][NextTodo]_vars

\* the concurrent issuance requests together with their daemon threads; a started
\* thread is scheduled and runs to its end while the server process lives
NextVivo == NextConcurrente \/ Fondo

SpecVivo == Init /\ [][NextVivo]_vars /\ WF_vars(Fondo)

(* ======================================================================= *)
(* Properties                                                              *)
(* ======================================================================= *)
PartesDelLibro == {almacen[i].numero_parte : i \in Indices(almacen)} \ {Vacio, Nulo}

Recibido(parte) == RecibidoDe(almacen, parte)

Emitido(parte) == EmitidoDe(almacen, salidas, parte)

\* C1 (P2, non-negative batch stock): for every receipt row, the issuance rows of
\* its batch code sum to at most the row's cantidad_actual.
C1_StockDeLoteNoNegativo ==
    \A i \in Indices(almacen) :
        TotalSalidasDe(salidas, almacen[i].codigo_material_recibido) <= almacen[i].cantidad_actual

\* C2 (concurrent issuance): two finished requests on one batch, each quantity
\* fitting the received quantity alone and their sum exceeding it: exactly one was
\* accepted, the other got the insufficient-stock error, and the batch is not
\* over-issued.
C2_Compiten ==
    /\ \A c \in Clientes : peticion[c].pc = "fin" /\ peticion[c].cantidad > 0
    /\ peticion["c1"].codigo = peticion["c2"].codigo
    /\ FilasDeCodigo(peticion["c1"].codigo) # {}
    /\ LET recibida == almacen[PrimeraFila(peticion["c1"].codigo)].cantidad_actual
       IN  /\ \A c \in Clientes : peticion[c].cantidad <= recibida
           /\ peticion["c1"].cantidad + peticion["c2"].cantidad > recibida

\* both messages of the stock guard ("Sin stock disponible", "Cantidad insuficiente")
SinStockSuficiente == {"sin_stock", "insuficiente"}

C2_ExactamenteUnaAceptada ==
    C2_Compiten =>
        /\ \/ peticion["c1"].tipo = "ok" /\ peticion["c2"].tipo \in SinStockSuficiente
           \/ peticion["c2"].tipo = "ok" /\ peticion["c1"].tipo \in SinStockSuficiente
        /\ TotalSalidasDe(salidas, peticion["c1"].codigo)
              <= almacen[PrimeraFila(peticion["c1"].codigo)].cantidad_actual

\* C3 (P1, conservation): right after a forced recompute the aggregate row of every
\* part it covers holds the sum of the part's receipts, the sum of the issuances
\* against the part's batches, and their difference.
ConservaParte(parte) ==
    /\ inventario[parte].cantidad_entradas = Recibido(parte)
    /\ inventario[parte].cantidad_salidas = Emitido(parte)
    /\ inventario[parte].cantidad_total = Recibido(parte) - Emitido(parte)

C3_Conservacion ==
    /\ ultima.op = "forzar" => ConservaParte(ultima.parte)
    /\ ultima.op = "recalcular" => \A p \in PartesDelLibro : ConservaParte(p)

\* C4 (P5, eventual consistency): a daemon thread that succeeds lowers the part's
\* cantidad_total by the issued quantity; one that fails leaves the aggregate as it
\* was, and the forced recompute of that part that follows makes cantidad_total
\* equal to received minus issued.
C4_ConsistenciaEventual ==
    [][/\ \A h \in hilos :
             /\ BackgroundExito(h) =>
                   inventario'[h.numero_parte].cantidad_total =
                       inventario[h.numero_parte].cantidad_total - h.cantidad_salida
             /\ BackgroundFallo(h) => inventario' = inventario
       /\ \A p \in PartesClave :
             (ultima.op = "background" /\ ultima.tipo = "fallo" /\ ultima.parte = p
                  /\ ForzarActualizacionInventario(p))
             => inventario'[p].cantidad_total = Recibido(p) - Emitido(p)]_vars

\* C5 (aggregate equals ledger at quiescence): with no daemon thread pending (and
\* none failed, no forced recompute), every part's cantidad_total is the sum of its
\* receipts minus the sum of the issuances against its batches.
C5_AgregadoIgualAlLibro ==
    hilos = {} => \A p \in PartesDelLibro : inventario[p].cantidad_total = Recibido(p) - Emitido(p)

\* C6 as stated (Stock Guard rejection): a request on an existing batch with
\* quantity <= 0 or above the available stock is rejected, the rejection carries
\* the available and the requested amounts, and nothing is written or spawned.
Disponible(codigo) ==
    almacen[PrimeraFila(codigo)].cantidad_actual - TotalSalidasDe(salidas, codigo)

Rechazable(codigo, cantidad) ==
    /\ FilasDeCodigo(codigo) # {}
    /\ cantidad <= 0 \/ cantidad > Disponible(codigo)

SinEfecto ==
    /\ almacen' = almacen
    /\ salidas' = salidas
    /\ hilos' = hilos
    /\ inventario' = inventario

InformaDisponibleYSolicitado(codigo, cantidad) ==
    /\ {"disponible", "solicitado"} \subseteq ultima'.informa
    /\ ultima'.disponible = Disponible(codigo)
    /\ ultima'.solicitado = cantidad

C6_RechazoInformaSiempre ==
    [][\A k \in CodigosSalida, q \in Cantidades :
          (ProcesarSalidaMaterial(k, q) /\ Rechazable(k, q)) =>
              /\ ultima'.tipo # "ok"
              /\ InformaDisponibleYSolicitado(k, q)
              /\ SinEfecto]_vars

\* C6 as amended: the same rejection, which carries the available and requested
\* amounts when the requested quantity and the available stock are both positive.
C6_Rechazo ==
    [][\A k \in CodigosSalida, q \in Cantidades :
          (ProcesarSalidaMaterial(k, q) /\ Rechazable(k, q)) =>
              /\ ultima'.tipo # "ok"
              /\ (q > 0 /\ Disponible(k) > 0) => InformaDisponibleYSolicitado(k, q)
              /\ SinEfecto]_vars

C6_Testigo ==
    /\ ultima.op = "salida"
    /\ ultima.tipo = "insuficiente"
    /\ Len(salidas) >= 1
    /\ ultima.disponible < ultima.solicitado

\* C7 as stated (NotFound rejection): a request whose batch identifier matches no
\* receipt row gets the not-found error and leaves the tables as they were.
C7_NoEncontradoSiempre ==
    [][\A k \in CodigosSalida, q \in Cantidades :
          (ProcesarSalidaMaterial(k, q) /\ FilasDeCodigo(k) = {}) =>
              /\ ultima'.tipo = "no_encontrado"
              /\ SinEfecto]_vars

\* C7 as amended: the request is rejected and leaves the tables as they were; the
\* error is the not-found error when the identifier is non-empty and the quantity
\* is positive.
C7_NoEncontrado ==
    [][\A k \in CodigosSalida, q \in Cantidades :
          (ProcesarSalidaMaterial(k, q) /\ FilasDeCodigo(k) = {}) =>
              /\ ultima'.tipo # "ok"
              /\ (Truthy(k) /\ q > 0) => ultima'.tipo = "no_encontrado"
              /\ SinEfecto]_vars

C7_Testigo ==
    /\ ultima.op = "salida"
    /\ ultima.tipo = "no_encontrado"
    /\ Len(almacen) >= 1

\* C8 (remaining quantity on acceptance): the nueva_cantidad_disponible of an
\* accepted issuance is the received quantity of the batch minus all its committed
\* issuances, the new one included.
C8_NuevaCantidadDisponible ==
    (ultima.op = "salida" /\ ultima.tipo = "ok") =>
        LET k == salidas[Len(salidas)].codigo_material_recibido
        IN  ultima.nueva = almacen[PrimeraFila(k)].cantidad_actual - TotalSalidasDe(salidas, k)

C8_Testigo ==
    /\ ultima.op = "salida"
    /\ ultima.tipo = "ok"
    /\ Len(salidas) >= 2
    /\ salidas[1].codigo_material_recibido = salidas[Len(salidas)].codigo_material_recibido
    /\ Cardinality({almacen[i].codigo_material_recibido : i \in Indices(almacen)}) >= 2

\* C9 (P3, idempotent recompute): repeating the forced recompute that was the last
\* thing to happen leaves every aggregate quantity as the first call left it.
C9_RecalculoIdempotente ==
    [][(ultima.op \in {"forzar", "recalcular"} /\ ultima'.op = ultima.op /\ ultima'.parte = ultima.parte)
          => inventario' = inventario]_vars

C9_Testigo ==
    /\ ultima.op = "forzar"
    /\ ultima.tipo = "ok"
    /\ ultima.repetida
    /\ inventario[ultima.parte].cantidad_salidas > 0

\* C10 (P4, sequence monotonicity): in a series of calls each followed by the
\* receipt stored under the returned code, the call made after n receipts of the
\* material and day returns n + 1.
FilasDeLaSerie(material, fecha) ==
    {i \in Indices(almacen) :
        /\ Len(almacen[i].codigo_material_recibido) >= Len(material) + 2
        /\ SubSeq(almacen[i].codigo_material_recibido, 1, Len(material) + 2) = material \o <<",", fecha>>}

C10_SecuenciaCreciente ==
    (ultima.op = "secuencial" /\ ultima.tipo = "ok") =>
        ultima.siguiente_secuencial = Cardinality(FilasDeLaSerie(ultima.parte, ultima.fecha_actual)) + 1

\* C11 (batch code uniqueness): no two receipt rows carry the same
\* codigo_material_recibido, also when the receipt flows of several users interleave.
C11_CodigoDeLoteUnico ==
    \A i, j \in Indices(almacen) :
        almacen[i].codigo_material_recibido = almacen[j].codigo_material_recibido => i = j

\* C12 (failure atomicity of ledger writes): a receipt or issuance request that
\* ends with an error response leaves the receipt rows and the issuance rows as
\* they were before the request.
C12_ErrorSinEscritura ==
    [][/\ \A o \in Originales, k \in CodigosEntrada, p \in Partes, q \in Cantidades :
             (GuardarControlAlmacen(o, k, p, q) /\ ultima'.tipo # "ok")
                 => (almacen' = almacen /\ salidas' = salidas)
       /\ \A k \in CodigosSalida, q \in Cantidades :
             (ProcesarSalidaMaterial(k, q) /\ ultima'.tipo # "ok")
                 => (almacen' = almacen /\ salidas' = salidas)]_vars

\* C13 (isolation of aggregate failures): the step in which a background update
\* fails leaves the receipt and issuance rows as they are and ends the thread for
\* good (threads only start with the commit of a new issuance row, whose request
\* is answered with success in that same step).
FalloDeFondo ==
    /\ ultima'.op = "background"
    /\ ultima'.tipo = "fallo"
    /\ ultima' # ultima \/ hilos' # hilos

C13_FalloAislado ==
    [][/\ FalloDeFondo =>
             /\ salidas' = salidas
             /\ almacen' = almacen
             /\ hilos' \subseteq hilos
             /\ hilos' # hilos
       /\ \A h \in hilos' \ hilos :
             /\ Len(salidas') = Len(salidas) + 1
             /\ h.salida = Len(salidas')
             /\ ultima'.op = "salida"
             /\ ultima'.tipo = "ok"]_vars

C13_Testigo ==
    /\ ultima.op = "background"
    /\ ultima.tipo = "fallo"
    /\ hilos = {}
    /\ \E j \in Indices(salidas) :
          /\ OVacio(almacen[PrimeraFila(salidas[j].codigo_material_recibido)].numero_parte) = ultima.parte
          /\ inventario[ultima.parte].cantidad_salidas = 0

\* C14 (non-negative aggregate): once the aggregate update of a committed issuance
\* has been applied, the cantidad_total of the issued part is >= 0.
C14_AgregadoNoNegativo ==
    (ultima.op = "background" /\ ultima.tipo = "ok") => inventario[ultima.parte].cantidad_total >= 0

\* C15 (receipt validation): every receipt row of the ledger has a non-empty part
\* number and a positive quantity (a request without them is rejected, no row).
C15_ReciboValidado ==
    \A i \in Indices(almacen) : Truthy(almacen[i].numero_parte) /\ almacen[i].cantidad_actual > 0

\* C16 (receipt updates the aggregate synchronously): in the step in which a
\* receipt of quantity q for part p is answered with success, the aggregate row of
\* p has received +q (entries and total, issuances untouched), once.
C16_EntradaEnElAgregado ==
    [][\A o \in Originales, k \in CodigosEntrada, p \in PartesClave, q \in Cantidades :
          (GuardarControlAlmacen(o, k, p, q) /\ ultima'.tipo = "ok") =>
              /\ inventario'[p].existe
              /\ inventario'[p].cantidad_entradas = inventario[p].cantidad_entradas + q
              /\ inventario'[p].cantidad_salidas = inventario[p].cantidad_salidas
              /\ inventario'[p].cantidad_total = inventario[p].cantidad_total + q]_vars

\* C17 (balance query identity): a balance query for part number p answers with
\* the aggregate row whose numero_parte is exactly p (its part number and its
\* cantidad_total), and with not-found when that row does not exist; the search
\* endpoint is given the part number without surrounding blanks.
FilaExacta(p) == p \in PartesAgregado /\ inventario[p].existe

RespondeLaFilaDe(p) ==
    IF FilaExacta(p)
    THEN /\ ultima'.tipo = "ok"
         /\ ultima'.parte = p
         /\ ultima'.cantidad_total = inventario[p].cantidad_total
    ELSE ultima'.tipo = "no_encontrado"

C17_ConsultaExacta ==
    [][\A p \in PartesConsulta \ {Vacio} :
          /\ VerificarEstadoInventario(p) => RespondeLaFilaDe(p)
          /\ BuscarMaterialPorNumeroParte(p) => RespondeLaFilaDe(Strip(p))]_vars

\* C18 (freshness check): verificar_estado_inventario(p) answers
\* actualizado_recientemente = TRUE exactly when the fecha_actualizacion of p's
\* aggregate row lies within the 30 seconds before the server's clock, answers
\* not-found when p has no aggregate row, and changes neither ledger nor aggregate.
DentroDeLaVentana(fecha) == fecha <= AhoraLocal /\ AhoraLocal - fecha < Ventana

C18_Frescura ==
    [][\A p \in PartesConsulta \ {Vacio} :
          VerificarEstadoInventario(p) =>
              /\ IF FilaExacta(p)
                 THEN /\ ultima'.tipo = "ok"
                      /\ ultima'.actualizado_recientemente
                             = DentroDeLaVentana(inventario[p].fecha_actualizacion)
                 ELSE ultima'.tipo = "no_encontrado"
              /\ SinEfecto]_vars

HilosPosibles ==
    [salida : 1 .. Cardinality(Clientes), numero_parte : Partes \ {Vacio, Nulo},
     cantidad_salida : 1 .. MaxCantidad]

Confirma(c) == peticion[c].pc = "confirmar" /\ peticion'[c].pc = "fin" /\ peticion'[c].tipo = "ok"

C20_HilosAcotados == hilos \subseteq HilosPosibles

\* C21 (stale aggregate persists until reconciliation): while a part has a failed
\* background update and no recompute covering it has run since, its cantidad_total
\* differs from received minus issued; the recompute that covers it (the forced one
\* of that part or the general one) makes them equal again.
TotalAlDia(p) == inventario[p].cantidad_total = Recibido(p) - Emitido(p)

Recalcula(p) ==
    /\ ultima'.tipo = "ok"
    /\ ultima' # ultima \/ inventario' # inventario
    /\ \/ ultima'.op = "forzar" /\ ultima'.parte = p
       \/ ultima'.op = "recalcular"

C21_RancioHastaRecalcular ==
    /\ [](\A p \in fallidas : ~TotalAlDia(p))
    /\ [][\A p \in fallidas :
             Recalcula(p) => inventario'[p].cantidad_total
                                = RecibidoDe(almacen', p) - EmitidoDe(almacen', salidas', p)]_vars

\* C22 (P2 on the lot-issuance path): a guardar_salida_lote request on an existing
\* batch for more than the batch's remaining stock (received quantity minus the
\* committed issuances of the batch) is rejected and inserts no issuance row, so
\* an accepted one keeps the issued sum of the batch within the received quantity.
C22_LoteRespetaElStock ==
    [][\A k \in CodigosSalida, q \in Cantidades :
          (GuardarSalidaLote(k, q) /\ ultima'.op = "lote" /\ FilasDeCodigo(k) # {}) =>
              /\ q > Disponible(k) => (ultima'.tipo # "ok" /\ salidas' = salidas)
              /\ ultima'.tipo = "ok" =>
                    TotalSalidasDe(salidas', k) <= almacen[PrimeraFila(k)].cantidad_actual]_vars

\* C23 (next sequence is max + 1): obtener_siguiente_secuencial(code) answers 1 plus
\* the largest suffix among the receipt rows whose code is exactly code, a comma,
\* today's date and four digits, and 1 when there is none; other rows do not count.
SufijoExacto(material, fecha, codigo) ==
    /\ Len(codigo) = Len(material) + 6
    /\ SubSeq(codigo, 1, Len(material) + 2) = material \o <<",", fecha>>
    /\ \A k \in Len(material) + 3 .. Len(codigo) : EsCifra(codigo[k])

SufijosExactos(material, fecha) ==
    {ValorDe(SubSeq(almacen[i].codigo_material_recibido, Len(material) + 3, Len(material) + 6)) :
        i \in {j \in Indices(almacen) : SufijoExacto(material, fecha, almacen[j].codigo_material_recibido)}}

MayorSufijo(material, fecha) ==
    LET S == SufijosExactos(material, fecha) \cup {0}
    IN  CHOOSE n \in S : \A m \in S : m <= n

C23_SiguienteEsMaximoMasUno ==
    [][\A m \in Materiales \ {Vacio} :
          ObtenerSiguienteSecuencial(m) =>
              ultima'.siguiente_secuencial = MayorSufijo(m, hoy) + 1]_vars

\* C24 (four-digit code format): every proximo_codigo_completo that
\* obtener_siguiente_secuencial produces is the material code, a comma, the date
\* and exactly four decimal digits, whatever the number of receipts already stored
\* for that code and day.
C24_CodigoDeCuatroCifras ==
    (ultima.op = "secuencial" /\ ultima.tipo = "ok") =>
        SufijoExacto(ultima.parte, ultima.fecha_actual, ultima.proximo_codigo_completo)

\* C25 (no double counting when a recompute races with a background update): when
\* a recompute covering part p has run while the thread of a committed issuance of
\* p was still pending, and that thread (the only one pending) then applies its
\* update, the row of p holds cantidad_salidas = issued and cantidad_total =
\* received minus issued: the issuance is counted once.
C25_SinDobleConteo ==
    [][\A h \in hilos :
          (/\ hilos = {h}
           /\ ultima.tipo = "ok"
           /\ \/ ultima.op = "forzar" /\ ultima.parte = h.numero_parte
              \/ ultima.op = "recalcular"
           /\ BackgroundExito(h))
          => /\ inventario'[h.numero_parte].cantidad_salidas = Emitido(h.numero_parte)
             /\ inventario'[h.numero_parte].cantidad_total
                    = Recibido(h.numero_parte) - Emitido(h.numero_parte)]_vars

\* C26 (pre-validation agrees with the Stock Guard): for an existing batch code
\* (one receipt row) and a quantity > 0, control_salida_validar_stock answers
\* disponible = true exactly when procesar_salida_material accepts that quantity
\* from that batch in the same state.
SalidaAceptable(codigo, cantidad) ==
    /\ cantidad > 0
    /\ FilasDeCodigo(codigo) # {}
    /\ cantidad <= Disponible(codigo)

C26_ValidacionIgualAlTope ==
    [][\A k \in CodigosStock, q \in 1 .. MaxCantidad :
          (ControlSalidaValidarStock(k, q) /\ Cardinality(FilasDeCodigo(k)) = 1) =>
              /\ ultima'.suficiente = SalidaAceptable(k, q)
              /\ SalidaAceptable(k, q) = (RespuestaSalida(k, q).tipo = "ok")]_vars

\* C27 (batch lookup reports live remaining stock): for an existing batch code,
\* buscar_material_por_codigo succeeds exactly when the received quantity minus the
\* issuances of the batch is > 0, and the cantidad_actual it answers is that
\* difference, the available stock of the Stock Guard.
C27_BusquedaConStockVivo ==
    [][\A k \in CodigosStock :
          (BuscarMaterialPorCodigo(k) /\ ultima'.op = "buscar_codigo" /\ FilasDeCodigo(k) # {}) =>
              /\ (ultima'.tipo = "ok") = (Disponible(k) > 0)
              /\ ultima'.tipo = "ok" => ultima'.disponible = Disponible(k)]_vars

\* C28 (frame of the per-part forced recompute): forzar_actualizacion_inventario(p)
\* leaves the aggregate rows of the other parts, the descriptive attributes
\* (codigo_material, propiedad_material, especificacion, fecha_creacion) of the row
\* of p, and all receipt and issuance rows as they were.
C28_MarcoDelRecalculo ==
    [][\A p \in PartesClave :
          ForzarActualizacionInventario(p) =>
              /\ \A q \in PartesAgregado \ {p} : inventario'[q] = inventario[q]
              /\ inventario[p].existe => inventario'[p].descriptivos = inventario[p].descriptivos
              /\ almacen' = almacen
              /\ salidas' = salidas]_vars

\* C29 (sequence generation is a pure read): a call of obtener_siguiente_secuencial
\* changes no receipt row, issuance row, aggregate row or thread, and a call that
\* follows another one for the same material code and day, nothing stored in
\* between, answers the same sequence number and the same proximo_codigo_completo.
EsLlamadaSecuencial == ultima'.op = "secuencial" /\ hoy' = hoy

\* the answer in hand is the answer a second call would give in the same state
SegundaLlamadaIgual ==
    (ultima.op = "secuencial" /\ ultima.tipo = "ok" /\ ultima.fecha_actual = hoy) =>
        /\ RespuestaSecuencial(ultima.parte).siguiente_secuencial = ultima.siguiente_secuencial
        /\ RespuestaSecuencial(ultima.parte).proximo_codigo_completo = ultima.proximo_codigo_completo

C29_SecuencialSoloLee ==
    /\ []SegundaLlamadaIgual
    /\ [][EsLlamadaSecuencial =>
          /\ almacen' = almacen
          /\ salidas' = salidas
          /\ inventario' = inventario
          /\ hilos' = hilos
          /\ (ultima.op = "secuencial" /\ ultima.parte = ultima'.parte
                  /\ ultima.fecha_actual = ultima'.fecha_actual) =>
                /\ ultima'.siguiente_secuencial = ultima.siguiente_secuencial
                /\ ultima'.proximo_codigo_completo = ultima.proximo_codigo_completo]_vars

C29_Testigo ==
    /\ ultima.op = "secuencial"
    /\ ultima.tipo = "ok"
    /\ ultima.fecha_actual = hoy
    /\ ultima.siguiente_secuencial = 4
    /\ Len(almacen) = MaxRecibosSerie

====
